---- MODULE Spec2Model ----
(***************************************************************************)
(* Model of gridsome's ContentTypeCollection (lib/app/ContentTypeCollection *)
(* .js): the content types of one store, their node collections, the        *)
(* store-wide node index and the 'change' notifications each type emits.    *)
(*                                                                          *)
(* JavaScript values are tagged records: [t |-> "undefined"],               *)
(* [t |-> "string", v |-> <<characters>>], [t |-> "object", v |-> map],     *)
(* [t |-> "array", v |-> <<values>>].  A string is the sequence of its      *)
(* characters, so that slugify, createKey and the path normalisation are    *)
(* computed character by character as the code computes them.               *)
(***************************************************************************)
EXTENDS Integers, Sequences, FiniteSets, TLC

----------------------------------------------------------------------------
(* Bounds of the model *)

\* number of addNode/updateNode calls that reach createInternals (Date.now)
MaxClock == 3
\* the same, in the store with the one type Post
MaxClockOneType == 4
\* the same, for the calls with explicit options and with references
MaxClockExplicit == 2
\* depth to which the field values given to processNodeFields are nested
MaxDepth == 2
----------------------------------------------------------------------------
(* JavaScript values *)

U == [t |-> "undefined"]
S(chars) == [t |-> "string", v |-> chars]
Obj(map) == [t |-> "object", v |-> map]
Arr(seq) == [t |-> "array", v |-> seq]

EmptyMap == [k \in {} |-> U]

\* typeof x === 'string'
IsString(x) == x.t = "string"

\* truthiness that takes false for truthy
Truthy_ofEveryBoolean(x) ==
  CASE x.t = "undefined" -> FALSE
    [] x.t = "null" -> FALSE
    [] x.t = "string" -> x.v # <<>>
    [] x.t = "number" -> x.frac \/ x.hi # 0 \/ x.lo # 0
    [] OTHER -> TRUE

\* JavaScript truthiness: undefined, null, '', false and 0 are falsy
Truthy(x) ==
  CASE x.t = "undefined" -> FALSE
    [] x.t = "null" -> FALSE
    [] x.t = "string" -> x.v # <<>>
    [] x.t = "boolean" -> x.v
    [] x.t = "number" -> x.frac \/ x.hi # 0 \/ x.lo # 0
    [] OTHER -> TRUE

\* a || b
Or(a, b) == IF Truthy(a) THEN a ELSE b

\* obj[key] on a plain object (undefined when the key is missing)
Get(obj, key) == IF obj.t = "object" /\ key \in DOMAIN obj.v THEN obj.v[key] ELSE U

\* Object.assign({}, a, b) on two maps: b's own keys win
Assign(a, b) == [k \in (DOMAIN a) \cup (DOMAIN b) |-> IF k \in DOMAIN b THEN b[k] ELSE a[k]]

----------------------------------------------------------------------------
(* Characters *)

Lowers == <<"a","b","c","d","e","f","g","h","i","j","k","l","m",
            "n","o","p","q","r","s","t","u","v","w","x","y","z">>
Uppers == <<"A","B","C","D","E","F","G","H","I","J","K","L","M",
            "N","O","P","Q","R","S","T","U","V","W","X","Y","Z">>
Digits == <<"0","1","2","3","4","5","6","7","8","9">>

InSeq(c, s) == \E i \in 1..Len(s) : s[i] = c
IsLower(c) == InSeq(c, Lowers)
IsUpper(c) == InSeq(c, Uppers)
IsDigit(c) == InSeq(c, Digits)
IsAlnum(c) == IsLower(c) \/ IsUpper(c) \/ IsDigit(c)

ToLower(c) == IF IsUpper(c) THEN Lowers[CHOOSE i \in 1..Len(Uppers) : Uppers[i] = c] ELSE c
ToUpper(c) == IF IsLower(c) THEN Uppers[CHOOSE i \in 1..Len(Lowers) : Lowers[i] = c] ELSE c

MapChars(F(_), s) == [i \in 1..Len(s) |-> F(s[i])]

\* s.replace(/^c+/, '')
RECURSIVE StripLeading(_, _)
StripLeading(c, s) ==
  IF s # <<>> /\ Head(s) = c THEN StripLeading(c, Tail(s)) ELSE s

\* s without its last character while that character is c
RECURSIVE StripTrailing(_, _)
StripTrailing(c, s) ==
  IF s # <<>> /\ s[Len(s)] = c THEN StripTrailing(c, SubSeq(s, 1, Len(s) - 1)) ELSE s

\* runs of c collapsed to one c
RECURSIVE Collapse(_, _)
Collapse(c, s) ==
  IF Len(s) < 2 THEN s
  ELSE IF s[1] = c /\ s[2] = c THEN Collapse(c, Tail(s))
  ELSE <<s[1]>> \o Collapse(c, Tail(s))

----------------------------------------------------------------------------
(* String conversions *)

\* slugify(string, { separator: '-' }): lower case, every run of characters
\* that are not letters or digits becomes one '-', no '-' at either end
slugify(s) ==
  LET dashed == MapChars(LAMBDA c : IF IsAlnum(c) THEN ToLower(c) ELSE "-", s)
  IN StripTrailing("-", StripLeading("-", Collapse("-", dashed)))

Separators == {"_", ".", "-", " "}
IsSep(c) == c \in Separators
RECURSIVE StripSeps(_)
StripSeps(s) == IF s # <<>> /\ IsSep(Head(s)) THEN StripSeps(Tail(s)) ELSE s

\* camelcase's preserveCamelCase, its loop from position i: a '-' goes between
\* a lower-case letter and the upper-case letter after it, and before the last
\* of two or more upper-case letters that a lower-case letter follows
RECURSIVE preserveCamelCaseFrom(_, _, _, _, _)
preserveCamelCaseFrom(s, i, isLastCharLower, isLastCharUpper, isLastLastCharUpper) ==
  IF i > Len(s) THEN s
  ELSE IF isLastCharLower /\ IsUpper(s[i])
    THEN preserveCamelCaseFrom(SubSeq(s, 1, i - 1) \o <<"-">> \o SubSeq(s, i, Len(s)),
                               i + 2, FALSE, TRUE, isLastCharUpper)
  ELSE IF isLastCharUpper /\ isLastLastCharUpper /\ IsLower(s[i])
    THEN preserveCamelCaseFrom(SubSeq(s, 1, i - 2) \o <<"-">> \o SubSeq(s, i - 1, Len(s)),
                               i + 1, TRUE, FALSE, isLastCharUpper)
  ELSE preserveCamelCaseFrom(s, i + 1, IsLower(s[i]), IsUpper(s[i]), isLastCharUpper)

preserveCamelCase(s) == preserveCamelCaseFrom(s, 1, FALSE, FALSE, FALSE)

\* .replace(/[_.\- ]+(\w|$)/g, (m, p1) => p1.toUpperCase())
RECURSIVE UpperAfterSeps(_)
UpperAfterSeps(s) ==
  IF s = <<>> THEN <<>>
  ELSE IF IsSep(s[1]) THEN
    LET r == StripSeps(s) IN
      IF r = <<>> THEN <<>>
      ELSE IF IsAlnum(r[1]) THEN <<ToUpper(r[1])>> \o UpperAfterSeps(Tail(r))
      ELSE SubSeq(s, 1, Len(s) - Len(r)) \o <<r[1]>> \o UpperAfterSeps(Tail(r))
  ELSE <<s[1]>> \o UpperAfterSeps(Tail(s))

\* camelCase(input, { pascalCase })
camelCase(input, pascalCase) ==
  LET trimmed == StripTrailing(" ", StripLeading(" ", input))
      postProcess(x) == IF pascalCase /\ x # <<>> THEN <<ToUpper(x[1])>> \o Tail(x) ELSE x
      hasUpperCase == \E i \in 1..Len(trimmed) : IsUpper(trimmed[i])
      kept == IF hasUpperCase THEN preserveCamelCase(trimmed) ELSE trimmed
  IN IF trimmed = <<>> THEN <<>>
     ELSE IF Len(trimmed) = 1
       THEN <<IF pascalCase THEN ToUpper(trimmed[1]) ELSE ToLower(trimmed[1])>>
     ELSE postProcess(UpperAfterSeps(MapChars(ToLower, StripSeps(kept))))

\* key.replace(nonValidCharsRE, '_'), camelCase(key), then '_' before a leading digit
createKey(key) ==
  LET valid == MapChars(LAMBDA c : IF IsAlnum(c) \/ c = "_" THEN c ELSE "_", key)
      camel == camelCase(valid, FALSE)
  IN IF camel # <<>> /\ IsDigit(camel[1]) THEN <<"_">> \o camel ELSE camel

\* crypto.createHash('md5').update(s).digest('hex'): the digest of s, taken to
\* be free of collisions and written as s behind a '#'
md5(s) == <<"#">> \o s

\* makeUid(orgId)
makeUid(orgId) == S(md5(orgId))

----------------------------------------------------------------------------
(* More JavaScript values *)

Bool(b) == [t |-> "boolean", v |-> b]

Join(a, b) == a \o <<",">> \o b

\* String(x)
RECURSIVE String(_)
String(x) ==
  CASE x.t = "string" -> x.v
    [] x.t = "undefined" -> <<"u","n","d","e","f","i","n","e","d">>
    [] x.t = "null" -> <<"n","u","l","l">>
    [] x.t = "boolean" -> IF x.v THEN <<"t","r","u","e">> ELSE <<"f","a","l","s","e">>
    [] x.t = "array" ->
         IF x.v = <<>> THEN <<>>
         ELSE IF Len(x.v) = 1 THEN String(x.v[1])
         ELSE Join(String(x.v[1]), String(Arr(Tail(x.v))))
    [] OTHER -> <<"[","o","b","j","e","c","t"," ","O","b","j","e","c","t","]">>

\* lodash isObject(x): objects and arrays
isObject(x) == x.t \in {"object", "array"}

----------------------------------------------------------------------------
(* The content types of the store and their configuration *)

Post == <<"P","o","s","t">>
Page == <<"P","a","g","e">>
TypeNames == {Post, Page}

K_id == <<"i","d">>
K_typeName == <<"t","y","p","e","N","a","m","e">>
K_title == <<"t","i","t","l","e">>
K_slug == <<"s","l","u","g">>
K_date == <<"d","a","t","e">>
K_content == <<"c","o","n","t","e","n","t">>
K_excerpt == <<"e","x","c","e","r","p","t">>
K_path == <<"p","a","t","h">>
K_uid == <<"u","i","d">>
K_year == <<"y","e","a","r">>
K_month == <<"m","o","n","t","h">>
K_day == <<"d","a","y">>

\* this.options.routeKeys: Post has the route '/:slug', Page has '/:year/:title'
routeKeys(typeName) == IF typeName = Post THEN <<K_slug>> ELSE <<K_year, K_title>>

\* this.options.refs: the references declared with addReference (none here)
refs(typeName) == [k \in {} |-> Post]

\* this.pluginStore._transformers: the mime types that have a transformer
Markdown == <<"m","d">>
Yaml == <<"y","m","l">>
transformers == {Markdown}

\* transformer.parse(content, options) of the one transformer: the raw text
\* is the title, and the node gets one parsed field
parse(content) ==
  [title |-> content, slug |-> U, path |-> U, date |-> U, content |-> U,
   excerpt |-> U, fields |-> Obj(<<"w">> :> S(<<"1">>))]

\* isResolvablePath(value): a string that starts with './'
isResolvablePath(field) ==
  field.t = "string" /\ Len(field.v) > 2 /\ field.v[1] = "." /\ field.v[2] = "/"

\* this.pluginStore._app.resolveFilePath(origin, field, resolveAbsolutePaths)
resolveFilePath(origin, field) == S(origin \o <<"/">> \o SubSeq(field.v, 3, Len(field.v)))

\* new Date(now).toISOString(), cut to the day: 2019-01-0<now>
toISOString(now) == S(<<"2","0","1","9","-","0","1","-","0">> \o <<Digits[(now % 9) + 2]>>)

----------------------------------------------------------------------------
(* createInternals, transform, transformNodeOptions *)

\* createInternals(options = {}); now is Date.now()
createInternals(options, now) ==
  IF options = U
    THEN [origin |-> U, mimeType |-> U, content |-> U, timestamp |-> now]
    ELSE [origin |-> options.origin, mimeType |-> options.mimeType,
          content |-> options.content, timestamp |-> now]

\* transform that hands the content to a parser whatever the mime type is
transformThrows_never(internal) == FALSE

\* transform({ mimeType, content }): throws when no transformer is installed
transformThrows(internal) == String(internal.mimeType) \notin transformers
transform(internal) == parse(internal.content)

\* transformNodeOptions(options, internal): what options is after the call
transformNodeOptions(options, internal) ==
  LET result == transform(internal)
      assigned(key) == IF Truthy(result[key]) THEN result[key] ELSE options[key]
      own == IF Truthy(options.fields) THEN options.fields.v ELSE EmptyMap
  IN [options EXCEPT !.title = assigned("title"),
                     !.slug = assigned("slug"),
                     !.path = assigned("path"),
                     !.date = assigned("date"),
                     !.content = assigned("content"),
                     !.excerpt = assigned("excerpt"),
                     !.fields = IF Truthy(result.fields)
                                  THEN Obj(Assign(own, result.fields.v))
                                  ELSE options.fields]

----------------------------------------------------------------------------
(* processNodeFields *)

\* the keys of an object, the indices of an array ("0", "1", ...)
KeysOf(x) == IF x.t = "array" THEN {<<Digits[i]>> : i \in 1..Len(x.v)} ELSE DOMAIN x.v
At(x, key) ==
  IF x.t = "array" THEN x.v[CHOOSE i \in 1..Len(x.v) : <<Digits[i]>> = key] ELSE x.v[key]

\* key.startsWith('__')
startsWith__(key) == Len(key) >= 2 /\ key[1] = "_" /\ key[2] = "_"

\* isRefField(field)
isRefField(field) ==
  /\ field.t \in {"object", "array"}
  /\ Cardinality(KeysOf(field)) = 2
  /\ K_typeName \in KeysOf(field)
  /\ K_id \in KeysOf(field)

\* processRefField({ typeName, id }): the ids it sets under belongsTo[typeName]
processRefField(typeName, id) ==
  [typeName |-> String(typeName),
   ids |-> IF id.t = "array" THEN {String(id.v[i]) : i \in 1..Len(id.v)} ELSE {String(id)}]

\* the calls of processRefField that processField makes for one reference
refFieldCalls(field) ==
  LET typeName == field.v[K_typeName]
      id == field.v[K_id]
  IN IF typeName.t = "array"
       THEN {processRefField(typeName.v[i], id) : i \in 1..Len(typeName.v)}
       ELSE {processRefField(typeName, id)}

\* the calls of processRefField made while processField / processFields walk a value
RECURSIVE refCallsOfField(_), refCallsOfFields(_)
refCallsOfField(field) ==
  IF field.t \in {"object", "array"}
    THEN (IF isRefField(field) THEN refFieldCalls(field) ELSE {}) \cup refCallsOfFields(field)
    ELSE {}
refCallsOfFields(fields) ==
  UNION { IF startsWith__(key) THEN {}
          ELSE LET value == At(fields, key) IN
            IF value.t = "array"
              THEN UNION {refCallsOfField(value.v[i]) : i \in 1..Len(value.v)}
              ELSE refCallsOfField(value)
          : key \in KeysOf(fields) }

\* processField(field) and processFields(fields) of processNodeFields.  When two
\* keys of one object have the same createKey, the code keeps the one that comes
\* later in the object's key order; the inputs used here have no such keys.
RECURSIVE processField(_, _), processFields(_, _)
processField(field, origin) ==
  CASE field.t \in {"undefined", "null"} -> field
    [] field.t \in {"object", "array"} -> Obj(processFields(field, origin))
    [] field.t = "string" ->
         IF isResolvablePath(field) THEN resolveFilePath(origin, field) ELSE field
    [] OTHER -> field
processFields(fields, origin) ==
  LET keys == KeysOf(fields)
      resKey(key) == IF startsWith__(key) THEN key ELSE createKey(key)
      from(rk) == CHOOSE key \in keys : resKey(key) = rk
      res(key) ==
        LET value == At(fields, key) IN
          IF startsWith__(key) THEN value
          ELSE IF value.t = "array"
            THEN Arr([i \in 1..Len(value.v) |-> processField(value.v[i], origin)])
            ELSE processField(value, origin)
  IN [rk \in {resKey(key) : key \in keys} |-> res(from(rk))]

\* processNodeFields(input = {}, origin = '')
processNodeFields(typeName, input, origin) ==
  LET given == IF input = U THEN Obj(EmptyMap) ELSE input
      org == IF origin = U THEN <<>> ELSE origin.v
      fields == Obj(processFields(given, org))
      declared == {processRefField(S(refs(typeName)[fieldName]), Get(fields, fieldName))
                     : fieldName \in DOMAIN refs(typeName)}
      calls == refCallsOfFields(given) \cup declared
      belongsTo == [tn \in {c.typeName : c \in calls} |->
                      UNION {c.ids : c \in {d \in calls : d.typeName = tn}}]
  IN [fields |-> fields, belongsTo |-> belongsTo]

----------------------------------------------------------------------------
(* makePath *)

\* node[keyName] for the attributes a node has
NodeAttr(node, keyName) ==
  CASE keyName = K_id -> node.id
    [] keyName = K_typeName -> S(node.typeName)
    [] keyName = K_uid -> node.uid
    [] keyName = K_title -> node.title
    [] keyName = K_date -> node.date
    [] keyName = K_slug -> node.slug
    [] keyName = K_content -> node.content
    [] keyName = K_excerpt -> node.excerpt
    [] keyName = K_path -> node.path
    [] OTHER -> U

\* moment.utc(date, ISO_8601_FORMAT, true).format(unit) on YYYY-MM-DD strings
IsIsoDate(date) ==
  /\ date.t = "string" /\ Len(date.v) = 10
  /\ \A i \in 1..10 : IF i \in {5, 8} THEN date.v[i] = "-" ELSE IsDigit(date.v[i])
InvalidDate == <<"I","n","v","a","l","i","d"," ","d","a","t","e">>
formatDate(date, from, to) == IF IsIsoDate(date) THEN SubSeq(date.v, from, to) ELSE InvalidDate

\* the body of the loop over routeKeys that slugifies every candidate that is
\* not a reference with one id, objects and lists too
routeParam_slugifiesObjects(params, node, keyName) ==
  LET fieldValue == Or(Get(node.fields, keyName), Or(NodeAttr(node, keyName), S(keyName)))
      set(name, value) == Assign(params, name :> value)
  IN CASE keyName = K_year -> set(keyName, formatDate(node.date, 1, 4))
       [] keyName = K_month -> set(keyName, formatDate(node.date, 6, 7))
       [] keyName = K_day -> set(keyName, formatDate(node.date, 9, 10))
       [] /\ fieldValue.t = "object"
          /\ K_typeName \in DOMAIN fieldValue.v
          /\ K_id \in DOMAIN fieldValue.v
          /\ fieldValue.v[K_id].t # "array" -> set(keyName, String(fieldValue.v[K_id]))
       [] OTHER ->
            Assign(set(keyName, slugify(String(fieldValue))),
                   (keyName \o <<"_","r","a","w">>) :> String(fieldValue))

\* the body of the loop over routeKeys: params after the step for keyName
routeParam(params, node, keyName) ==
  LET fieldValue == Or(Get(node.fields, keyName), Or(NodeAttr(node, keyName), S(keyName)))
      set(name, value) == Assign(params, name :> value)
  IN CASE keyName = K_year -> set(keyName, formatDate(node.date, 1, 4))
       [] keyName = K_month -> set(keyName, formatDate(node.date, 6, 7))
       [] keyName = K_day -> set(keyName, formatDate(node.date, 9, 10))
       [] /\ isObject(fieldValue)
          /\ fieldValue.t = "object"
          /\ K_typeName \in DOMAIN fieldValue.v
          /\ K_id \in DOMAIN fieldValue.v
          /\ fieldValue.v[K_id].t # "array" -> set(keyName, String(fieldValue.v[K_id]))
       [] /\ ~isObject(fieldValue)
          /\ ~(keyName \in DOMAIN params /\ params[keyName] # <<>>) ->
            Assign(set(keyName, slugify(String(fieldValue))),
                   (keyName \o <<"_","r","a","w">>) :> String(fieldValue))
       [] OTHER -> params

\* the params object after the loop over routeKeys has run i steps
RECURSIVE routeParams(_, _, _)
routeParams(node, keys, i) ==
  IF i = 0 THEN [k \in {} |-> <<>>]
  ELSE routeParam(routeParams(node, keys, i - 1), node, keys[i])

\* this.options.makePath(params), compiled from the route: a '/' and the
\* parameter for each route key; throws when one is missing or empty
compiledThrows(typeName, params) ==
  \E i \in 1..Len(routeKeys(typeName)) :
    routeKeys(typeName)[i] \notin DOMAIN params \/ params[routeKeys(typeName)[i]] = <<>>
RECURSIVE compiledPath(_, _, _)
compiledPath(typeName, params, i) ==
  IF i = 0 THEN <<>>
  ELSE compiledPath(typeName, params, i - 1) \o <<"/">> \o params[routeKeys(typeName)[i]]

\* makePath(node)
makePath(typeName, node) ==
  LET params == routeParams(node, routeKeys(typeName), Len(routeKeys(typeName)))
  IN IF compiledThrows(typeName, params)
       THEN [threw |-> TRUE, path |-> U]
       ELSE [threw |-> FALSE,
             path |-> S(compiledPath(typeName, params, Len(routeKeys(typeName))))]

\* '/' + path.replace(/^\/+/g, '')
explicitPath(path) == S(<<"/">> \o StripLeading("/", path.v))

----------------------------------------------------------------------------
(* createNode *)

\* JSON.stringify(options), as far as makeUid needs it: the string options in
\* the order of their keys
JSONstringify(options) ==
  LET part(name, value) == IF value.t = "string" THEN name \o <<":">> \o value.v ELSE <<>>
  IN part(K_title, options.title) \o part(K_date, options.date) \o part(K_slug, options.slug)
     \o part(K_content, options.content) \o part(K_excerpt, options.excerpt)
     \o part(K_path, options.path)

Threw == [threw |-> TRUE, node |-> U, belongsTo |-> EmptyMap]
Created(node, belongsTo) == [threw |-> FALSE, node |-> node, belongsTo |-> belongsTo]

\* createNode, the path: explicit and normalised, or made from the route
createNodePath(typeName, options, node, belongsTo, made) ==
  IF IsString(options.path)
    THEN Created([node EXCEPT !.path = explicitPath(options.path)], belongsTo)
  ELSE IF made.threw THEN Threw
  ELSE Created([node EXCEPT !.path = made.path], belongsTo)

\* createNode, the node before it has a path; the titles of the calls made
\* here are strings, which is what the slugify of the library accepts
createNodeDerived(typeName, options, now, internal, id, fields, title) ==
  [id |-> id, typeName |-> typeName, internal |-> internal, _id |-> id,
   uid |-> S(md5(typeName \o String(id))),
   title |-> title,
   date |-> Or(options.date, Or(Get(fields, K_date), toISOString(now))),
   slug |-> Or(options.slug, Or(Get(fields, K_slug), S(slugify(String(title))))),
   content |-> Or(options.content, Or(Get(fields, K_content), S(<<>>))),
   excerpt |-> Or(options.excerpt, Or(Get(fields, K_excerpt), S(<<>>))),
   withPath |-> Bool(IsString(options.path)),
   fields |-> fields,
   path |-> U]

\* createNode from the fields processNodeFields returned
createNodeProcessed(typeName, options, node, belongsTo) ==
  createNodePath(typeName, options, node, belongsTo, makePath(typeName, node))

\* createNode from the options as transformNodeOptions left them
createNodeFields(typeName, options, now, internal, id, processed) ==
  createNodeProcessed(typeName, options,
    createNodeDerived(typeName, options, now, internal, id, processed.fields,
                      Or(options.title, Or(Get(processed.fields, K_title), id))),
    processed.belongsTo)

createNodeTransformed(typeName, options, now, internal, id) ==
  createNodeFields(typeName, options, now, internal, id,
                   processNodeFields(typeName, options.fields, internal.origin))

\* createNode(options): [threw, node, belongsTo]; now is the clock's reading
createNode(typeName, options, now) ==
  LET internal == createInternals(options.internal, now)
      id == Or(options.id, Or(options._id, makeUid(JSONstringify(options))))
      transforms == Truthy(internal.content) /\ Truthy(internal.mimeType)
  IN IF transforms /\ transformThrows(internal) THEN Threw
     ELSE createNodeTransformed(typeName,
            IF transforms THEN transformNodeOptions(options, internal) ELSE options,
            now, internal, id)

----------------------------------------------------------------------------
(* The store *)

VARIABLES
  collection,  \* collection[typeName]: the nodes in this.collection of the type
  index,       \* this.baseStore.index: the index entries of the store
  mimeTypes,   \* mimeTypes[typeName]: this.options.mimeTypes of the type
  events,      \* events[typeName]: the 'change' notifications the type has emitted
  clock,       \* Date.now()
  lastCall     \* the last call made, how it ended and what it emitted

vars == <<collection, index, mimeTypes, events, clock, lastCall>>

Null == [t |-> "null"]

\* store.data.addCollection(typeName, { unique: ['id', 'path'] }): insert(node)
\* throws when a node of the collection has the same id or the same path
collectionInsertThrows(typeName, node) ==
  \E n \in collection[typeName] : n.id = node.id \/ n.path = node.path

\* this.baseStore.index, unique in uid and path: insert(entry) throws when an
\* entry has the same uid or the same path
indexInsertThrows(entry) ==
  \E e \in index : e.uid = entry.uid \/ e.path = entry.path

\* this.collection.findOne({ id })
getNode(typeName, id) ==
  IF \E n \in collection[typeName] : n.id = id
    THEN CHOOSE n \in collection[typeName] : n.id = id
    ELSE Null

\* this.baseStore.index.findOne({ uid })
findIndexEntry(uid) ==
  IF \E e \in index : e.uid = uid THEN CHOOSE e \in index : e.uid = uid ELSE Null

\* the index entry addNode inserts for a node
indexEntryOf(node, belongsTo) ==
  [type |-> "node", path |-> node.path, typeName |-> node.typeName, uid |-> node.uid,
   id |-> node.id, belongsTo |-> belongsTo, _id |-> node.id]

\* this.emit('change', node, oldNode), with what a listener reads from the
\* store while it is notified
change(node, oldNode, docs, entries) ==
  [node |-> node, oldNode |-> oldNode, collection |-> docs, index |-> entries]

\* the outcome of a call: what it leaves in the store, what it emitted, and
\* whether it threw or what it returned
Outcome(docs, entries, mimes, emitted, threw, returned) ==
  [collection |-> docs, index |-> entries, mimeTypes |-> mimes, emitted |-> emitted,
   threw |-> threw, returned |-> returned]

----------------------------------------------------------------------------
(* addNode *)

\* mimeTypes after addNode's registration of the node's mime type
registerMimeType(typeName, node) ==
  LET mimeType == node.internal.mimeType
      key == String(mimeType)
  IN IF Truthy(mimeType) /\ key \notin DOMAIN mimeTypes[typeName]
       THEN Assign(mimeTypes[typeName],
                   key :> (IF key \in transformers THEN S(key) ELSE U))
       ELSE mimeTypes[typeName]

\* addNode with the node put in the collection before the index is asked
addCreated_insertsFirst(typeName, node, entry, mimes) ==
  IF collectionInsertThrows(typeName, node)
    THEN Outcome(collection[typeName], index, mimes, <<>>, TRUE, U)
  ELSE IF indexInsertThrows(entry)
    THEN Outcome(collection[typeName] \cup {node}, index, mimes, <<>>, FALSE, Null)
  ELSE Outcome(collection[typeName] \cup {node}, index \cup {entry}, mimes,
               <<change(node, U, collection[typeName] \cup {node}, index \cup {entry})>>,
               FALSE, node)

\* addNode with the notification emitted before the node is in the collection
addCreated_emitsFirst(typeName, node, entry, mimes) ==
  IF indexInsertThrows(entry)
    THEN Outcome(collection[typeName], index, mimes, <<>>, FALSE, Null)
  ELSE IF collectionInsertThrows(typeName, node)
    THEN Outcome(collection[typeName], index \cup {entry}, mimes, <<>>, TRUE, U)
  ELSE Outcome(collection[typeName] \cup {node}, index \cup {entry}, mimes,
               <<change(node, U, collection[typeName], index \cup {entry})>>,
               FALSE, node)

\* addNode once createNode has returned the node
addCreated(typeName, node, entry, mimes) ==
  IF indexInsertThrows(entry)
    THEN Outcome(collection[typeName], index, mimes, <<>>, FALSE, Null)
  ELSE IF collectionInsertThrows(typeName, node)
    THEN Outcome(collection[typeName], index \cup {entry}, mimes, <<>>, TRUE, U)
  ELSE Outcome(collection[typeName] \cup {node}, index \cup {entry}, mimes,
               <<change(node, U, collection[typeName] \cup {node}, index \cup {entry})>>,
               FALSE, node)

addNodeCreated(typeName, created) ==
  IF created.threw
    THEN Outcome(collection[typeName], index, mimeTypes[typeName], <<>>, TRUE, U)
    ELSE addCreated(typeName, created.node, indexEntryOf(created.node, created.belongsTo),
                    registerMimeType(typeName, created.node))

\* addNode(options)
addNodeOutcome(typeName, options) ==
  addNodeCreated(typeName, createNode(typeName, options, clock))

----------------------------------------------------------------------------
(* updateNode *)

\* the collection with the changed node next to the one it was
stored_keepsOld(typeName, node, changed) == collection[typeName] \cup {changed}

\* the collection with the node in place of the one it was
stored(typeName, node, changed) == (collection[typeName] \ {node}) \cup {changed}

\* node.slug of updateNode
updatedSlug(options, fields, title) ==
  Or(options.slug, Or(Get(fields, K_slug), S(slugify(String(title)))))

\* updateNode, the derived fields and node.internal
updateNodeDerived(options, node, internal, fields, title) ==
  [node EXCEPT
     !.title = title,
     !.date = Or(options.date, Or(Get(fields, K_date), node.date)),
     !.slug = updatedSlug(options, fields, title),
     !.content = Or(options.content, Or(Get(fields, K_content), node.content)),
     !.excerpt = Or(options.excerpt, Or(Get(fields, K_excerpt), node.excerpt)),
     !.internal = internal]

\* updateNode without cloneDeep: the old node emitted is the node itself
updateNodeIndexed_noClone(typeName, node, oldNode, indexEntry, belongsTo, entries) ==
  IF indexEntry = Null
    THEN Outcome(stored(typeName, oldNode, node), index, mimeTypes[typeName], <<>>, TRUE, U)
    ELSE Outcome(stored(typeName, oldNode, node), entries, mimeTypes[typeName],
                 <<change(node, node, stored(typeName, oldNode, node), entries)>>,
                 FALSE, node)

\* updateNode, the index entry and the notification
updateNodeIndexed(typeName, node, oldNode, indexEntry, belongsTo, entries) ==
  IF indexEntry = Null
    THEN Outcome(stored(typeName, oldNode, node), index, mimeTypes[typeName], <<>>, TRUE, U)
    ELSE Outcome(stored(typeName, oldNode, node), entries, mimeTypes[typeName],
                 <<change(node, oldNode, stored(typeName, oldNode, node), entries)>>,
                 FALSE, node)

\* updateNode that leaves the belongsTo of the index entry as it was
updateNodePath_keepsBelongsTo(typeName, options, node, oldNode, processed, indexEntry, path) ==
  updateNodeIndexed(typeName, [node EXCEPT !.path = path, !.fields = processed.fields],
    oldNode, indexEntry, processed.belongsTo,
    (index \ {indexEntry}) \cup {[indexEntry EXCEPT !.path = path]})

\* updateNode, the path, the fields and the index entry
updateNodePath(typeName, options, node, oldNode, processed, indexEntry, path) ==
  updateNodeIndexed(typeName, [node EXCEPT !.path = path, !.fields = processed.fields],
    oldNode, indexEntry, processed.belongsTo,
    (index \ {indexEntry})
      \cup {[indexEntry EXCEPT !.path = path, !.belongsTo = processed.belongsTo]})

updateNodeMade(typeName, options, node, oldNode, processed, indexEntry, made) ==
  IF IsString(options.path)
    THEN updateNodePath(typeName, options, node, oldNode, processed, indexEntry,
                        explicitPath(options.path))
  ELSE IF made.threw
    THEN Outcome(stored(typeName, oldNode, node), index, mimeTypes[typeName], <<>>, TRUE, U)
  ELSE updateNodePath(typeName, options, node, oldNode, processed, indexEntry, made.path)

\* updateNode from the node with its derived fields; it still has its old fields
updateNodeProcessed(typeName, options, node, oldNode, processed, indexEntry) ==
  updateNodeMade(typeName, options, node, oldNode, processed, indexEntry,
                 makePath(typeName, node))

\* updateNode from the fields processNodeFields returned
updateNodeFields(typeName, options, node, internal, processed, indexEntry) ==
  updateNodeProcessed(typeName, options,
    updateNodeDerived(options, node, internal, processed.fields,
                      Or(options.title, Or(Get(processed.fields, K_title), node.title))),
    node, processed, indexEntry)

\* updateNode from the options as transformNodeOptions left them
updateNodeTransformed(typeName, options, node, internal, indexEntry) ==
  updateNodeFields(typeName, options, node, internal,
                   processNodeFields(typeName, options.fields, internal.origin),
                   indexEntry)

\* updateNode once getNode has found the node
updateNodeFound(typeName, options, node) ==
  LET internal == createInternals(options.internal, clock)
      assigned == [node EXCEPT !.internal = createInternals(options.internal, clock)]
      transforms == Truthy(internal.content) /\ Truthy(internal.mimeType)
  IN IF transforms /\ transformThrows(internal)
       THEN Outcome(stored(typeName, node, assigned), index, mimeTypes[typeName],
                    <<>>, TRUE, U)
       ELSE updateNodeTransformed(typeName,
              IF transforms THEN transformNodeOptions(options, internal) ELSE options,
              node, internal, findIndexEntry(node.uid))

\* updateNode that returns without a word when the id is unknown
updateNodeOutcome_ignoresUnknown(typeName, id, options) ==
  IF getNode(typeName, id) = Null
    THEN Outcome(collection[typeName], index, mimeTypes[typeName], <<>>, FALSE, U)
    ELSE updateNodeFound(typeName, options, getNode(typeName, id))

\* updateNode(id, options)
updateNodeOutcome(typeName, id, options) ==
  IF getNode(typeName, id) = Null
    THEN Outcome(collection[typeName], index, mimeTypes[typeName], <<>>, TRUE, U)
    ELSE updateNodeFound(typeName, options, getNode(typeName, id))

----------------------------------------------------------------------------
(* removeNode *)

\* removeNode that removes the index entry and leaves the node in the collection
removeNodeFound_keepsNode(typeName, id, node, docs, entries) ==
  Outcome(collection[typeName], entries, mimeTypes[typeName],
          <<change(U, node, collection[typeName], entries)>>, FALSE, U)

\* removeNode once the node is found
removeNodeFound(typeName, id, node, docs, entries) ==
  Outcome(docs, entries, mimeTypes[typeName], <<change(U, node, docs, entries)>>, FALSE, U)

\* removeNode(id)
removeNodeOutcome(typeName, id) ==
  IF getNode(typeName, id) = Null
    THEN Outcome(collection[typeName], index, mimeTypes[typeName], <<>>, TRUE, U)
    ELSE removeNodeFound(typeName, id, getNode(typeName, id),
                         {n \in collection[typeName] : n.id # id},
                         {e \in index : e.uid # getNode(typeName, id).uid})

----------------------------------------------------------------------------
(* The calls as steps of the store *)

\* the notification as the type's listeners keep it: the node and the old node
Kept(emitted) == [i \in 1..Len(emitted) |-> [node |-> emitted[i].node, oldNode |-> emitted[i].oldNode]]

\* the store after a call of a content type that ended with the outcome
Apply(op, typeName, id, options, outcome, time) ==
  /\ collection' = [collection EXCEPT ![typeName] = outcome.collection]
  /\ index' = outcome.index
  /\ mimeTypes' = [mimeTypes EXCEPT ![typeName] = outcome.mimeTypes]
  /\ events' = [events EXCEPT ![typeName] = events[typeName] \o Kept(outcome.emitted)]
  /\ clock' = clock + time
  /\ lastCall' = [op |-> op, typeName |-> typeName, id |-> id, options |-> options,
                  threw |-> outcome.threw, returned |-> outcome.returned,
                  emitted |-> outcome.emitted]

addNode(typeName, options) ==
  Apply("addNode", typeName, options.id, options, addNodeOutcome(typeName, options), 1)

updateNode(typeName, id, options) ==
  Apply("updateNode", typeName, id, options, updateNodeOutcome(typeName, id, options),
        IF getNode(typeName, id) = Null THEN 0 ELSE 1)

removeNode(typeName, id) ==
  Apply("removeNode", typeName, id, U, removeNodeOutcome(typeName, id), 0)

Init ==
  /\ collection = [typeName \in TypeNames |-> {}]
  /\ index = {}
  /\ mimeTypes = [typeName \in TypeNames |-> EmptyMap]
  /\ events = [typeName \in TypeNames |-> <<>>]
  /\ clock = 0
  /\ lastCall = [op |-> "none", typeName |-> Post, id |-> U, options |-> U,
                 threw |-> FALSE, returned |-> U, emitted |-> <<>>]

----------------------------------------------------------------------------
(* The calls made: nodes a and b of the types Post and Page, with and      *)
(* without an explicit path                                                 *)

NoOptions ==
  [id |-> U, _id |-> U, title |-> U, date |-> U, slug |-> U, content |-> U,
   excerpt |-> U, path |-> U, fields |-> U, internal |-> U]

A == S(<<"a">>)
B == S(<<"b">>)
Ids == {A, B}

\* path: 'x' and path: '//a'; the second is the path '/a' of the Post a
WithPath == {[NoOptions EXCEPT !.path = S(p)] : p \in {<<"x">>, <<"/", "/", "a">>}}

\* internal: { mimeType: 'yml', content }, for which no transformer is installed
Internal(origin, mimeType, content) ==
  [origin |-> origin, mimeType |-> mimeType, content |-> content]
WithYamlContent == [NoOptions EXCEPT !.internal = Internal(U, S(Yaml), S(<<"c">>))]

Options == {NoOptions, WithYamlContent} \cup WithPath

WithId(options) == {[o EXCEPT !.id = id] : o \in options, id \in Ids}

\* the options of an update: the given ones, and the stored node's own fields
UpdateOptions(options, typeName, id) ==
  options \cup (IF getNode(typeName, id) = Null THEN {}
                ELSE {[NoOptions EXCEPT !.fields = getNode(typeName, id).fields]})

Next ==
  \/ /\ clock < MaxClock
     /\ \E typeName \in TypeNames, options \in WithId(Options) : addNode(typeName, options)
  \/ /\ clock < MaxClock
     /\ \E typeName \in TypeNames, id \in Ids :
          \E options \in UpdateOptions(Options, typeName, id) :
            updateNode(typeName, id, options)
  \/ \E typeName \in TypeNames, id \in Ids : removeNode(typeName, id)

Spec == Init /\ [][Next]_vars

----------------------------------------------------------------------------
(* The calls made in a store with the one type Post: nodes a and b, with   *)
(* and without the explicit path 'x'                                        *)

OneTypeOptions == {NoOptions, [NoOptions EXCEPT !.path = S(<<"x">>)]}

NextOneType ==
  \/ /\ clock < MaxClockOneType
     /\ \E options \in WithId(OneTypeOptions) : addNode(Post, options)
  \/ /\ clock < MaxClockOneType
     /\ \E id \in Ids : \E options \in OneTypeOptions : updateNode(Post, id, options)
  \/ \E id \in Ids : removeNode(Post, id)

SpecOneType == Init /\ [][NextOneType]_vars

----------------------------------------------------------------------------
(* The calls made on the node a of each type with options that set the     *)
(* derived fields, the fields and the internals                             *)

\* title, date, slug, content and excerpt given as options
WithDerived ==
  [NoOptions EXCEPT !.title = S(<<"A", " ", "b">>),
                    !.date = S(<<"2","0","2","0","-","0","2","-","0","3">>),
                    !.slug = S(<<"x">>),
                    !.content = S(<<"C">>),
                    !.excerpt = S(<<"E">>)]

\* fields: { Title, date, slug, content, excerpt }
WithFields ==
  [NoOptions EXCEPT !.fields =
     Obj((<<"T","i","t","l","e">> :> S(<<"T">>))
         @@ (K_date :> S(<<"2","0","2","1","-","0","3","-","0","4">>))
         @@ (K_slug :> S(<<"s">>))
         @@ (K_content :> S(<<"D">>))
         @@ (K_excerpt :> S(<<"F">>)))]

\* internal: { origin: 'o', mimeType: 'md', content: 'c' }, which the
\* transformer parses, and internal: { mimeType: 'yml' } without content
WithMarkdown == [NoOptions EXCEPT !.internal = Internal(S(<<"o">>), S(Markdown), S(<<"c">>))]
WithYaml == [NoOptions EXCEPT !.internal = Internal(U, S(Yaml), U)]

DerivedOptions ==
  {NoOptions, WithDerived, WithFields, [NoOptions EXCEPT !.path = S(<<"x">>)],
   WithMarkdown, WithYaml, WithYamlContent}

NextDerived ==
  \/ /\ clock < MaxClock
     /\ \E typeName \in TypeNames, options \in DerivedOptions :
          addNode(typeName, [options EXCEPT !.id = A])
  \/ /\ clock < MaxClock
     /\ \E typeName \in TypeNames :
          \E options \in UpdateOptions(DerivedOptions, typeName, A) :
            updateNode(typeName, A, options)
  \/ \E typeName \in TypeNames : removeNode(typeName, A)

SpecDerived == Init /\ [][NextDerived]_vars

----------------------------------------------------------------------------
(* Properties of the store *)

\* all nodes of the store
Nodes == UNION {collection[typeName] : typeName \in TypeNames}

Present(docs, id) == \E n \in docs : n.id = id

\* the node createNode makes of the options of the call made in this step
Resolved == createNode(lastCall'.typeName, lastCall'.options, clock)

\* the call made in this step returned normally and was not a rejected addNode
Succeeded(call) == ~call.threw /\ call.returned # Null

\* C1: no two nodes of the store, of one type or of two, have the same path,
\* and no two nodes of one type have the same id
C1_UniquePathsAndIds ==
  \A n1 \in Nodes, n2 \in Nodes :
    (n1.path = n2.path \/ (n1.typeName = n2.typeName /\ n1.id = n2.id)) => n1 = n2

\* C2: an addNode whose options resolve to a path that an index entry holds
\* returns null without throwing, leaves the collections and the index as they
\* were and emits nothing
C2_DuplicatePathRejected ==
  [][(/\ lastCall'.op = "addNode"
      /\ ~Resolved.threw
      /\ \E e \in index : e.path = Resolved.node.path)
     => (/\ lastCall'.returned = Null
         /\ ~lastCall'.threw
         /\ collection' = collection
         /\ index' = index
         /\ events' = events
         /\ lastCall'.emitted = <<>>)]_vars

\* an addNode with an explicit path was rejected for a node of the other type
C2_RejectedAcrossTypes ==
  /\ lastCall.op = "addNode"
  /\ lastCall.returned = Null
  /\ IsString(lastCall.options.path)
  /\ \E e \in index : /\ e.typeName # lastCall.typeName
                      /\ e.path = explicitPath(lastCall.options.path)

\* C3 as stated: once removeNode(id) has succeeded, no node of the type has
\* that id again
C3_RemovedIsTerminal ==
  \A typeName \in TypeNames : \A i \in 1..Len(events[typeName]) :
    events[typeName][i].node = U
      => ~Present(collection[typeName], events[typeName][i].oldNode.id)

\* C3 as amended: a node becomes present only by an addNode that returns it
\* and absent only by a removeNode of its id, a removeNode that succeeds
\* leaves the node absent, and an addNode that is rejected or throws leaves
\* presence as it was; removal is not terminal
C3_LifecycleReentrant ==
  [][\A typeName \in TypeNames, id \in Ids :
       LET was == Present(collection[typeName], id)
           is == Present(collection'[typeName], id)
           mine == lastCall'.typeName = typeName
       IN /\ (~was /\ is) => (/\ lastCall'.op = "addNode" /\ mine
                              /\ Succeeded(lastCall')
                              /\ lastCall'.returned.id = id)
          /\ (was /\ ~is) => (/\ lastCall'.op = "removeNode" /\ mine
                              /\ lastCall'.id = id
                              /\ ~lastCall'.threw)
          /\ (lastCall'.op = "removeNode" /\ mine /\ lastCall'.id = id /\ ~lastCall'.threw)
               => (was /\ ~is)
          /\ (lastCall'.op = "addNode" /\ mine /\ lastCall'.id = id /\ ~Succeeded(lastCall'))
               => (is = was)]_vars

\* a node that was removed has been added again
C3_AddedAgainAfterRemoval ==
  /\ lastCall.op = "addNode"
  /\ Succeeded(lastCall)
  /\ \E i \in 1..Len(events[lastCall.typeName]) :
       /\ events[lastCall.typeName][i].node = U
       /\ events[lastCall.typeName][i].oldNode.id = lastCall.returned.id

\* C5: a call that succeeds emits exactly one notification, (node) for
\* addNode, (node, the node as it was before the call) for updateNode and
\* (undefined, the removed node) for removeNode; any other call emits none
C5_OneChangePerSuccess ==
  [][LET call == lastCall'
         typeName == call.typeName
         before == getNode(typeName, call.id)
         emits(node, oldNode) ==
           /\ Len(call.emitted) = 1
           /\ events' = [events EXCEPT
                           ![typeName] = Append(@, [node |-> node, oldNode |-> oldNode])]
     IN IF ~Succeeded(call) THEN events' = events /\ call.emitted = <<>>
        ELSE IF call.op = "addNode"
          THEN call.returned \in collection'[typeName] /\ emits(call.returned, U)
        ELSE IF call.op = "updateNode"
          THEN call.returned \in collection'[typeName] /\ emits(call.returned, before)
        ELSE emits(U, before)]_vars

\* an updateNode has emitted the node with its new path and the old node with
\* its old path
C5_UpdateEmittedBoth ==
  /\ lastCall.op = "updateNode"
  /\ Succeeded(lastCall)
  /\ Len(lastCall.emitted) = 1
  /\ lastCall.emitted[1].node.path # lastCall.emitted[1].oldNode.path
  /\ lastCall.emitted[1].node \in collection[lastCall.typeName]

\* C6: the notifications of a type are kept in the order of the calls: a call
\* adds at most one, at the end, to its own type and within its own step, and
\* a listener notified reads the store as the call leaves it
C6_NotificationsInCallOrder ==
  [][\A typeName \in TypeNames :
       LET old == events[typeName]
           new == events'[typeName]
       IN /\ Len(new) \in {Len(old), Len(old) + 1}
          /\ SubSeq(new, 1, Len(old)) = old
          /\ Len(new) = Len(old) + 1 =>
               /\ lastCall'.typeName = typeName
               /\ Len(lastCall'.emitted) = 1
               /\ new[Len(new)] = [node |-> lastCall'.emitted[1].node,
                                   oldNode |-> lastCall'.emitted[1].oldNode]
               /\ lastCall'.emitted[1].collection = collection'[typeName]
               /\ lastCall'.emitted[1].index = index']_vars

\* a type has emitted the addNode of a node and then its removeNode
C6_AddedThenRemoved ==
  \E typeName \in TypeNames :
    /\ Len(events[typeName]) >= 2
    /\ events[typeName][1].oldNode = U
    /\ events[typeName][2].node = U
    /\ events[typeName][2].oldNode = events[typeName][1].node

\* C7: updateNode and removeNode of an id the type does not have throw, leave
\* the collections, the index and the mime types as they were and emit nothing
C7_UnknownIdThrows ==
  [][(/\ lastCall'.op \in {"updateNode", "removeNode"}
      /\ getNode(lastCall'.typeName, lastCall'.id) = Null)
     => (/\ lastCall'.threw
         /\ collection' = collection
         /\ index' = index
         /\ mimeTypes' = mimeTypes
         /\ events' = events
         /\ lastCall'.emitted = <<>>)]_vars

\* an updateNode threw for an id that only the other type has
C7_UnknownIdInThisType ==
  /\ lastCall.op = "updateNode"
  /\ lastCall.threw
  /\ getNode(lastCall.typeName, lastCall.id) = Null
  /\ \E n \in Nodes : n.id = lastCall.id

\* C4: removeNode(id) of a node the type has removes the node from the
\* collection of its type and the entries with its uid from the index and
\* nothing else, getNode(id) then finds nothing, and an addNode that follows,
\* of an id the type does not have and with options that resolve to the path
\* of the removed node, returns its node
C4_RemoveFreesNodeAndPath ==
  [][/\ (lastCall'.op = "removeNode" /\ getNode(lastCall'.typeName, lastCall'.id) # Null)
          => LET node == getNode(lastCall'.typeName, lastCall'.id) IN
               /\ ~lastCall'.threw
               /\ collection' = [collection EXCEPT ![lastCall'.typeName] = @ \ {node}]
               /\ index' = {e \in index : e.uid # node.uid}
               /\ \E e \in index : e.uid = node.uid
               /\ mimeTypes' = mimeTypes
               /\ ~Present(collection'[lastCall'.typeName], lastCall'.id)
     /\ (/\ lastCall.op = "removeNode"
         /\ ~lastCall.threw
         /\ lastCall'.op = "addNode"
         /\ ~Resolved.threw
         /\ Resolved.node.path = lastCall.emitted[1].oldNode.path
         /\ ~Present(collection[lastCall'.typeName], Resolved.node.id))
          => (Succeeded(lastCall') /\ lastCall'.returned \in collection'[lastCall'.typeName])
    ]_vars

----------------------------------------------------------------------------
(* Properties of createNode and updateNode *)

\* the mime type of the call made in this step has no transformer
Unregistered(call) ==
  /\ call.options.internal # U
  /\ Truthy(call.options.internal.mimeType)
  /\ String(call.options.internal.mimeType) \notin transformers

\* C8 as stated: an addNode with a mime type that has no transformer throws,
\* with raw content or without
C8_UnregisteredMimeTypeThrows ==
  (lastCall.op = "addNode" /\ Unregistered(lastCall)) => lastCall.threw

\* C8 as amended: an addNode with raw content and a mime type that has no
\* transformer throws, stores no node and no index entry, registers no mime
\* type and emits nothing
C8_UnregisteredTransformThrows ==
  [][(/\ lastCall'.op = "addNode"
      /\ Unregistered(lastCall')
      /\ Truthy(lastCall'.options.internal.content))
     => (/\ lastCall'.threw
         /\ collection' = collection
         /\ index' = index
         /\ mimeTypes' = mimeTypes
         /\ events' = events
         /\ lastCall'.emitted = <<>>)]_vars

\* an addNode with content of a mime type without transformer has thrown in a
\* store that has a node
C8_ThrewOnContent ==
  /\ lastCall.op = "addNode"
  /\ Unregistered(lastCall)
  /\ Truthy(lastCall.options.internal.content)
  /\ lastCall.threw
  /\ Nodes # {}

\* the node but for internal.timestamp
Timeless(node) == [node EXCEPT !.internal.timestamp = 0]

\* C9: updateNode(id, { fields: node.fields }) leaves the node as it was in
\* everything but internal.timestamp
C9_UpdateWithOwnFieldsIsIdempotent ==
  [][(/\ lastCall'.op = "updateNode"
      /\ getNode(lastCall'.typeName, lastCall'.id) # Null
      /\ lastCall'.options =
           [NoOptions EXCEPT !.fields = getNode(lastCall'.typeName, lastCall'.id).fields])
     => (/\ Succeeded(lastCall')
         /\ Timeless(lastCall'.returned)
              = Timeless(getNode(lastCall'.typeName, lastCall'.id)))]_vars

\* C10: updateNode resolves title, date, slug, content and excerpt each as the
\* option, else the value in the new fields, else the value the node had
C10_DerivedFallBackToPrevious ==
  [][(/\ lastCall'.op = "updateNode"
      /\ Succeeded(lastCall')
      /\ lastCall'.options.internal = U)
     => LET old == getNode(lastCall'.typeName, lastCall'.id)
            new == lastCall'.returned
            options == lastCall'.options
            resolved(option, key, previous) == Or(option, Or(Get(new.fields, key), previous))
        IN /\ new.title = resolved(options.title, K_title, old.title)
           /\ new.date = resolved(options.date, K_date, old.date)
           /\ new.slug = resolved(options.slug, K_slug, old.slug)
           /\ new.content = resolved(options.content, K_content, old.content)
           /\ new.excerpt = resolved(options.excerpt, K_excerpt, old.excerpt)]_vars

----------------------------------------------------------------------------
(* The calls made on the node a of each type with explicit paths and with  *)
(* options given next to raw content that the transformer parses            *)

\* title: 'A b' and fields: { w: '0', v: '2' } next to markdown content; the
\* transformer returns a title and the field w
WithMarkdownTitle == [WithMarkdown EXCEPT !.title = S(<<"A", " ", "b">>)]
WithMarkdownFields ==
  [WithMarkdown EXCEPT !.fields = Obj((<<"w">> :> S(<<"0">>)) @@ (<<"v">> :> S(<<"2">>)))]

\* path: '', 'x', '/x', '//a', 'a//b'
ExplicitPaths == {<<>>, <<"x">>, <<"/", "x">>, <<"/", "/", "a">>, <<"a", "/", "/", "b">>}
WithExplicitPath == {[NoOptions EXCEPT !.path = S(p)] : p \in ExplicitPaths}

ExplicitOptions == {NoOptions, WithMarkdownTitle, WithMarkdownFields} \cup WithExplicitPath

NextExplicit ==
  \/ /\ clock < MaxClockExplicit
     /\ \E typeName \in TypeNames, options \in ExplicitOptions :
          addNode(typeName, [options EXCEPT !.id = A])
  \/ /\ clock < MaxClockExplicit
     /\ \E typeName \in TypeNames :
          \E options \in UpdateOptions(ExplicitOptions, typeName, A) :
            updateNode(typeName, A, options)
  \/ \E typeName \in TypeNames : removeNode(typeName, A)

SpecExplicit == Init /\ [][NextExplicit]_vars

----------------------------------------------------------------------------
(* Properties of the explicit options *)

\* the call has raw content and a mime type, so its content is transformed
Transforms(call) ==
  /\ call.options.internal # U
  /\ Truthy(call.options.internal.content)
  /\ Truthy(call.options.internal.mimeType)

\* C11: the node addNode creates from raw content has the caller's title,
\* slug, path, date, content and excerpt wherever the options give one, and
\* the caller's value of every field the options give
C11_TransformerKeepsExplicitOptions ==
  (lastCall.op = "addNode" /\ Transforms(lastCall) /\ Succeeded(lastCall))
    => LET options == lastCall.options
           node == lastCall.returned
           given == IF Truthy(options.fields) THEN options.fields.v ELSE EmptyMap
       IN /\ Truthy(options.title) => node.title = options.title
          /\ Truthy(options.slug) => node.slug = options.slug
          /\ Truthy(options.path) => node.path = explicitPath(options.path)
          /\ Truthy(options.date) => node.date = options.date
          /\ Truthy(options.content) => node.content = options.content
          /\ Truthy(options.excerpt) => node.excerpt = options.excerpt
          /\ \A key \in DOMAIN given : Get(node.fields, createKey(key)) = given[key]

\* the path has one '/' at its start and no '//'
Normalised(path) ==
  /\ path.t = "string"
  /\ Len(path.v) >= 1
  /\ path.v[1] = "/"
  /\ \A i \in 1..(Len(path.v) - 1) : ~(path.v[i] = "/" /\ path.v[i + 1] = "/")

\* C12: the node that addNode or updateNode returns for options with a string
\* path has a path with exactly one '/' at its start and no '//' in it
C12_ExplicitPathNormalised ==
  (/\ lastCall.op \in {"addNode", "updateNode"}
   /\ Succeeded(lastCall)
   /\ IsString(lastCall.options.path))
    => Normalised(lastCall.returned.path)

----------------------------------------------------------------------------
(* The calls of processNodeFields and makePath, with the values they are   *)
(* given and what they return                                               *)

\* a call of a function of the content type that leaves the store alone
Called(op, typeName, input, result) ==
  /\ lastCall' = [op |-> op, typeName |-> typeName, id |-> U, options |-> input,
                  threw |-> FALSE, returned |-> result, emitted |-> <<>>]
  /\ UNCHANGED <<collection, index, mimeTypes, events, clock>>

\* processNodeFields(input, origin) as createNode and updateNode call it, on
\* the store as it is constructed
processNodeFieldsCalled(typeName, input, origin) ==
  /\ lastCall.op = "none"
  /\ Called("processNodeFields", typeName, [fields |-> input, origin |-> origin],
            processNodeFields(typeName, input, origin))

\* the node createNode hands to makePath: all of it but the path
pathless(typeName, options) ==
  createNodeDerived(typeName, options, 0, createInternals(options.internal, 0), options.id,
    processNodeFields(typeName, options.fields, U).fields,
    Or(options.title,
       Or(Get(processNodeFields(typeName, options.fields, U).fields, K_title), options.id)))

\* makePath(node) as createNode calls it, on the store as it is constructed,
\* with the params it hands to the route
makePathCalled(typeName, options) ==
  /\ lastCall.op = "none"
  /\ \E node \in {pathless(typeName, options)} :
       Called("makePath", typeName, node,
              [params |-> routeParams(node, routeKeys(typeName), Len(routeKeys(typeName))),
               made |-> makePath(typeName, node)])

\* { typeName: 'Post', id: '1' }, { typeName: 'Post', id: ['1', '2'] } and
\* { typeName: ['Post', 'Page'], id: '1' }
Reference(typeName, id) == Obj((K_typeName :> typeName) @@ (K_id :> id))
References ==
  {Reference(S(Post), S(<<"1">>)),
   Reference(S(Post), Arr(<<S(<<"1">>), S(<<"2">>)>>)),
   Reference(Arr(<<S(Post), S(Page)>>), S(<<"1">>))}

\* the references and a string, in objects and lists nested to the depth
RECURSIVE Nested(_)
Nested(depth) ==
  IF depth = 0 THEN References \cup {S(<<"A", " ", "b">>)}
  ELSE Nested(depth - 1)
       \cup {Obj(<<"O">> :> v) : v \in Nested(depth - 1)}
       \cup {Arr(<<v>>) : v \in Nested(depth - 1)}
       \cup {Arr(<<S(<<"s">>), v>>) : v \in Nested(depth - 1)}

\* fields: { F: value }
FieldsGiven == {Obj(<<"F">> :> v) : v \in Nested(MaxDepth)}

\* the candidates of a route parameter: none, a string, a reference with one
\* id, a reference with a list of ids, a plain object and a list
Candidates ==
  {U, S(<<"A", " ", "b">>), Obj(<<"x">> :> S(<<"y">>)), Arr(<<S(<<"x">>), S(<<"y">>)>>)}
    \cup {r \in References : r.v[K_typeName].t = "string"}

\* the dates: none, so that it is the day of creation, a day, and no date
Dates == {U, S(<<"2","0","2","0","-","0","2","-","0","3">>), S(<<"n","o">>)}

\* the nodes of Post, route '/:slug', with the candidate as fields.slug, and of
\* Page, route '/:year/:title', with the candidate as fields.title; the title
\* '!' has the empty slug
RouteOptions(typeName) ==
  IF typeName = Post
    THEN {[NoOptions EXCEPT !.id = A, !.title = title, !.date = date,
                            !.fields = IF c = U THEN U ELSE Obj(K_slug :> c)]
            : title \in {U, S(<<"!">>), S(<<"A", " ", "b">>)}, date \in Dates, c \in Candidates}
    ELSE {[NoOptions EXCEPT !.id = A, !.title = title, !.date = date, !.slug = S(<<"x">>),
                            !.fields = IF c = U THEN U ELSE Obj(K_title :> c)]
            : title \in {U, S(<<"A", " ", "b">>)}, date \in Dates, c \in Candidates}

NextFields ==
  \/ \E typeName \in TypeNames, input \in FieldsGiven, origin \in {U, S(<<"o">>)} :
       processNodeFieldsCalled(typeName, input, origin)
  \/ \E typeName \in TypeNames : \E options \in RouteOptions(typeName) :
       makePathCalled(typeName, options)

SpecFields == Init /\ [][NextFields]_vars

----------------------------------------------------------------------------
(* Properties of processNodeFields *)

\* an object with exactly the keys typeName and id
IsReference(value) == value.t = "object" /\ DOMAIN value.v = {K_typeName, K_id}

\* a value as the list of its elements, or of itself
Listed(value) == IF value.t = "array" THEN {value.v[i] : i \in 1..Len(value.v)} ELSE {value}

\* the references in a value, at any depth
RECURSIVE ReferencesIn(_)
ReferencesIn(value) ==
  CASE value.t = "object" ->
         (IF IsReference(value) THEN {value} ELSE {})
           \cup UNION {ReferencesIn(value.v[key]) : key \in DOMAIN value.v}
    [] value.t = "array" -> UNION {ReferencesIn(value.v[i]) : i \in 1..Len(value.v)}
    [] OTHER -> {}

\* belongsTo[typeName][id] is true for every type name and id of the reference
Registered(reference, belongsTo) ==
  \A typeName \in Listed(reference.v[K_typeName]), id \in Listed(reference.v[K_id]) :
    /\ String(typeName) \in DOMAIN belongsTo
    /\ String(id) \in belongsTo[String(typeName)]

\* every reference of the value is at the same place of the normalised value
RECURSIVE SamePlaces(_, _)
SamePlaces(value, normalised) ==
  CASE ReferencesIn(value) = {} -> TRUE
    [] value.t = "object" /\ IsReference(value) ->
         /\ normalised.t = "object"
         /\ Get(normalised, K_typeName) = value.v[K_typeName]
         /\ Get(normalised, K_id) = value.v[K_id]
    [] value.t = "object" /\ ~IsReference(value) ->
         /\ normalised.t = "object"
         /\ \A key \in DOMAIN value.v :
              /\ createKey(key) \in DOMAIN normalised.v
              /\ SamePlaces(value.v[key], normalised.v[createKey(key)])
    [] value.t = "array" ->
         /\ normalised.t = "array"
         /\ Len(normalised.v) = Len(value.v)
         /\ \A i \in 1..Len(value.v) : SamePlaces(value.v[i], normalised.v[i])
    [] OTHER -> TRUE

\* C13: every reference in the fields given to processNodeFields, in objects
\* and in lists at any depth, is registered in belongsTo under each of its
\* type names with each of its ids, and is in the normalised fields at the
\* place it had, with its typeName and id
C13_ReferencesAtAnyDepth ==
  lastCall.op = "processNodeFields"
    => /\ \A reference \in ReferencesIn(lastCall.options.fields) :
            Registered(reference, lastCall.returned.belongsTo)
       /\ SamePlaces(lastCall.options.fields, lastCall.returned.fields)

----------------------------------------------------------------------------
(* Properties of makePath *)

\* the candidate of a route parameter: the field of that name, else the
\* attribute of the node, else the name
CandidateOf(node, keyName) ==
  IF Truthy(Get(node.fields, keyName)) THEN Get(node.fields, keyName)
  ELSE IF Truthy(NodeAttr(node, keyName)) THEN NodeAttr(node, keyName)
  ELSE S(keyName)

\* a reference with one id
SingleReference(value) ==
  /\ value.t = "object"
  /\ {K_typeName, K_id} \subseteq DOMAIN value.v
  /\ value.v[K_id].t # "array"

Raw(keyName) == keyName \o <<"_","r","a","w">>

\* the parameter is the part of the node's date that its name says
FromDate(params, node, keyName) ==
  /\ keyName \in DOMAIN params
  /\ params[keyName] = CASE keyName = K_year -> formatDate(node.date, 1, 4)
                         [] keyName = K_month -> formatDate(node.date, 6, 7)
                         [] OTHER -> formatDate(node.date, 9, 10)

\* the parameter is the slug of the candidate and its companion the candidate
Slugified(params, node, keyName) ==
  /\ {keyName, Raw(keyName)} \subseteq DOMAIN params
  /\ params[keyName] = slugify(String(CandidateOf(node, keyName)))
  /\ params[Raw(keyName)] = String(CandidateOf(node, keyName))

\* C14, as stated: makePath gives every route parameter a value: the part of
\* the date for year, month and day, the id for a reference with one id, and
\* for every other candidate, plain objects, lists and references with a list
\* of ids included, the slug of its string form, with the string form as _raw
C14_EveryParameterHasAValue ==
  lastCall.op = "makePath" =>
    \A i \in 1..Len(routeKeys(lastCall.typeName)) :
      LET keyName == routeKeys(lastCall.typeName)[i]
          node == lastCall.options
          params == lastCall.returned.params
      IN CASE keyName \in {K_year, K_month, K_day} -> FromDate(params, node, keyName)
           [] SingleReference(CandidateOf(node, keyName)) ->
                /\ keyName \in DOMAIN params
                /\ params[keyName] = String(CandidateOf(node, keyName).v[K_id])
           [] OTHER -> Slugified(params, node, keyName)

\* C14: makePath sets year, month and day from the date, sets the parameter
\* of a reference with one id to the id, sets the parameter of a candidate
\* that is not an object to its slug, with the string form as _raw, and sets
\* no parameter for a candidate that is an object of another kind: a plain
\* object, a list, a reference with a list of ids
C14_ObjectCandidatesSetNoParameter ==
  lastCall.op = "makePath" =>
    \A i \in 1..Len(routeKeys(lastCall.typeName)) :
      LET keyName == routeKeys(lastCall.typeName)[i]
          node == lastCall.options
          params == lastCall.returned.params
      IN CASE keyName \in {K_year, K_month, K_day} -> FromDate(params, node, keyName)
           [] SingleReference(CandidateOf(node, keyName)) ->
                /\ keyName \in DOMAIN params
                /\ params[keyName] = String(CandidateOf(node, keyName).v[K_id])
           [] ~isObject(CandidateOf(node, keyName)) -> Slugified(params, node, keyName)
           [] OTHER -> {keyName, Raw(keyName)} \cap DOMAIN params = {}

\* makePath was called on a node whose candidate is a reference with a list of
\* ids, and has set no parameter for it and has no path to give
C14_ListReferenceCandidate ==
  /\ lastCall.op = "makePath"
  /\ \E i \in 1..Len(routeKeys(lastCall.typeName)) :
       LET candidate == CandidateOf(lastCall.options, routeKeys(lastCall.typeName)[i])
       IN /\ IsReference(candidate)
          /\ candidate.v[K_id].t = "array"
          /\ routeKeys(lastCall.typeName)[i] \notin DOMAIN lastCall.returned.params
  /\ lastCall.returned.made.threw

----------------------------------------------------------------------------
(* Type inference *)

\* a number: hi * 2^16 + lo, and a fraction on top of it when frac
Two16 == 65536
Num(hi, lo, frac) == [t |-> "number", hi |-> hi, lo |-> lo, frac |-> frac]

\* x | 0: the fraction is cut off towards zero and the integer wraps to the
\* 32 bits of a signed integer
ToInt32(x) ==
  LET up == x.frac /\ x.hi < 0
      lo == IF up THEN (x.lo + 1) % Two16 ELSE x.lo
      hi == IF up /\ x.lo = Two16 - 1 THEN x.hi + 1 ELSE x.hi
  IN Num(((hi + Two16 \div 2) % Two16) - Two16 \div 2, lo, FALSE)

\* is32BitInt(x)
is32BitInt(x) == ToInt32(x) = x

\* isDate(value): a string that is a day in ISO 8601
isDate(value) == IsIsoDate(value)

\* the types: none, the scalars, the date, lists and named object types
NoType == [k |-> "null"]
GraphQLInt == [k |-> "Int"]
GraphQLFloat == [k |-> "Float"]
GraphQLString == [k |-> "String"]
GraphQLBoolean == [k |-> "Boolean"]
dateType == [k |-> "Date"]
GraphQLList(type) == [k |-> "List", of |-> type]
GraphQLObjectType(name, fields) == [k |-> "Object", name |-> name, fields |-> fields]

\* createTypeName(nodeType, key)
createTypeName(nodeType, key) == camelCase(nodeType \o <<" ">> \o key, TRUE)

\* inferType(value, key, nodeType) and createObjectType(obj, key, nodeType)
RECURSIVE inferType(_, _, _), createObjectType(_, _, _)
inferType(value, key, nodeType) ==
  IF ~Truthy(value) THEN NoType
  ELSE IF value.t = "array" THEN
    LET type == inferType(IF value.v = <<>> THEN U ELSE value.v[1], key, nodeType)
    IN IF type # NoType THEN GraphQLList(type) ELSE NoType
  ELSE IF isDate(value) THEN dateType
  ELSE CASE value.t = "string" -> GraphQLString
         [] value.t = "boolean" -> GraphQLBoolean
         [] value.t = "number" -> IF is32BitInt(value) THEN GraphQLInt ELSE GraphQLFloat
         [] value.t = "object" -> createObjectType(value, key, nodeType)
         [] OTHER -> NoType
createObjectType(obj, key, nodeType) ==
  GraphQLObjectType(createTypeName(nodeType, key),
                    [k \in DOMAIN obj.v |-> inferType(obj.v[k], k, createTypeName(nodeType, key))])

\* the loop over the keys of one node that drops the type of a key whose
\* value has no type
inferTypesOfNode_erases(fields, node, nodeType) ==
  LET keys == IF node.fields.t = "object" THEN DOMAIN node.fields.v ELSE {}
      typed == {key \in keys : inferType(node.fields.v[key], key, nodeType) # NoType}
  IN [key \in ((DOMAIN fields) \ keys) \cup typed |->
        IF key \in typed THEN inferType(node.fields.v[key], key, nodeType) ELSE fields[key]]

\* inferTypes, the loop over the keys of one node: fields after it
inferTypesOfNode(fields, node, nodeType) ==
  LET keys == IF node.fields.t = "object" THEN DOMAIN node.fields.v ELSE {}
      typed == {key \in keys : inferType(node.fields.v[key], key, nodeType) # NoType}
  IN [key \in (DOMAIN fields) \cup typed |->
        IF key \in typed THEN inferType(node.fields.v[key], key, nodeType) ELSE fields[key]]

\* inferTypes, the loop over the nodes: fields after the first i nodes
RECURSIVE inferTypesUpTo(_, _, _)
inferTypesUpTo(nodes, nodeType, i) ==
  IF i = 0 THEN [key \in {} |-> NoType]
  ELSE inferTypesOfNode(inferTypesUpTo(nodes, nodeType, i - 1), nodes[i], nodeType)

\* inferTypes(nodes, nodeType)
inferTypes(nodes, nodeType) == inferTypesUpTo(nodes, nodeType, Len(nodes))

----------------------------------------------------------------------------
(* Type inference on its own: inferType on one value and inferTypes on the
   nodes of a type *)

\* at most this many nodes are given to inferTypes
MaxNodes == 2

inferTypeCalled(value, key, nodeType) ==
  /\ lastCall.op = "none"
  /\ Called("inferType", nodeType, [value |-> value, key |-> key],
            inferType(value, key, nodeType))

inferTypesCalled(nodes, nodeType) ==
  /\ lastCall.op = "none"
  /\ Called("inferTypes", nodeType, nodes, inferTypes(nodes, nodeType))

\* 0, 1, -1, 1.5, -1.5, 2^31 - 1, 2^31, -2^31 and -2^31 - 1
Numbers ==
  {Num(0, 0, FALSE), Num(0, 1, FALSE), Num(-1, Two16 - 1, FALSE), Num(0, 1, TRUE),
   Num(-1, Two16 - 2, TRUE), Num(Two16 \div 2 - 1, Two16 - 1, FALSE),
   Num(Two16 \div 2, 0, FALSE), Num(-(Two16 \div 2), 0, FALSE),
   Num(-(Two16 \div 2) - 1, Two16 - 1, FALSE)}

\* the values given to inferType: nothing, the booleans, the numbers, strings,
\* a day, objects, one of them with an object in it, and the lists of up to
\* two elements
InferValues ==
  LET x == S(<<"x">>)
      elements == {U, Null, Bool(FALSE), Num(0, 0, FALSE), Num(0, 1, TRUE), S(<<>>), x,
                   Obj(<<"c">> :> x), Arr(<<>>), Arr(<<x>>)}
  IN {U, Null, Bool(FALSE), Bool(TRUE), S(<<>>), x,
      S(<<"2","0","2","0","-","0","2","-","0","3">>),
      Obj(EmptyMap), Obj(<<"c">> :> x), Obj(<<"b">> :> Obj(<<"c">> :> Num(0, 1, FALSE)))}
       \cup Numbers \cup {Arr(<<>>)} \cup {Arr(<<v>>) : v \in elements}
       \cup {Arr(<<v, w>>) : v \in elements, w \in elements}

\* the lists of nodes given to inferTypes; the fields of a node: none, or one
\* key, a or aB, with a value of no type, of a scalar type, of a list type or
\* of an object type, which may have an object at b in it
NodeLists ==
  LET x == S(<<"x">>)
      values == {Null, Num(0, 0, FALSE), Num(0, 1, FALSE), x, Arr(<<>>), Arr(<<x>>),
                 Obj(<<"c">> :> x), Obj(<<"b">> :> Obj(<<"c">> :> x))}
      nodes == {[fields |-> U]}
                 \cup {[fields |-> Obj(key :> v)] : key \in {<<"a">>, <<"a", "B">>}, v \in values}
  IN UNION {[1..n -> nodes] : n \in 0..MaxNodes}

NextInfer ==
  \/ \E value \in InferValues, key \in {<<"a">>}, nodeType \in TypeNames :
       inferTypeCalled(value, key, nodeType)
  \/ \E nodes \in NodeLists, nodeType \in TypeNames :
       inferTypesCalled(nodes, nodeType)

SpecInfer == Init /\ [][NextInfer]_vars

----------------------------------------------------------------------------
(* Properties of the type inference *)

\* the type of the value that the i-th node has for the key
TypeAt(nodes, nodeType, i, key) ==
  IF nodes[i].fields.t = "object" /\ key \in DOMAIN nodes[i].fields.v
    THEN inferType(nodes[i].fields.v[key], key, nodeType)
    ELSE NoType

\* the nodes whose value for the key has a type
TypedAt(nodes, nodeType, key) ==
  {i \in 1..Len(nodes) : TypeAt(nodes, nodeType, i, key) # NoType}

\* the keys of the fields of the nodes
KeysIn(nodes) ==
  UNION {IF nodes[i].fields.t = "object" THEN DOMAIN nodes[i].fields.v ELSE {}
           : i \in 1..Len(nodes)}

Last(indices) == CHOOSE i \in indices : \A j \in indices : j <= i

\* C15: inferTypes gives each key the type of the last node of the list whose
\* value for the key has a type, whatever the nodes after it have, and gives a
\* key no entry exactly when no node has a value with a type for it; run
\* again on the same nodes it gives the same
C15_LastTypedNodeWins ==
  lastCall.op = "inferTypes" =>
    LET nodes == lastCall.options
        nodeType == lastCall.typeName
        fields == lastCall.returned
    IN /\ DOMAIN fields \subseteq KeysIn(nodes)
       /\ \A key \in KeysIn(nodes) :
            IF TypedAt(nodes, nodeType, key) = {}
              THEN key \notin DOMAIN fields
              ELSE /\ key \in DOMAIN fields
                   /\ fields[key] = TypeAt(nodes, nodeType, Last(TypedAt(nodes, nodeType, key)), key)
       /\ inferTypes(nodes, nodeType) = fields

\* inferTypes was called on two nodes with the key a, the first with a value
\* that has a type and the second with a value that has none, and has given
\* the key the type of the first
C15_LaterNodeWithoutType ==
  /\ lastCall.op = "inferTypes"
  /\ Len(lastCall.options) = 2
  /\ TypeAt(lastCall.options, lastCall.typeName, 1, <<"a">>) # NoType
  /\ lastCall.options[2].fields.t = "object"
  /\ <<"a">> \in DOMAIN lastCall.options[2].fields.v
  /\ TypeAt(lastCall.options, lastCall.typeName, 2, <<"a">>) = NoType
  /\ <<"a">> \in DOMAIN lastCall.returned
  /\ lastCall.returned[<<"a">>] = TypeAt(lastCall.options, lastCall.typeName, 1, <<"a">>)

\* 0, '', false, null and undefined
Falsy == {Num(0, 0, FALSE), S(<<>>), Bool(FALSE), Null, U}

\* C16: inferType gives no type to 0, '', false, null and undefined and to
\* the empty list, and gives a list that is not empty the list type of the
\* type of its first element, or no type when the first element has none,
\* whatever the other elements are
C16_FalsyAndFirstElement ==
  lastCall.op = "inferType" =>
    LET value == lastCall.options.value
        ofFirst == inferType(value.v[1], lastCall.options.key, lastCall.typeName)
    IN /\ value \in Falsy \cup {Arr(<<>>)} => lastCall.returned = NoType
       /\ value.t = "array" /\ value.v # <<>> =>
            lastCall.returned = IF ofFirst = NoType THEN NoType ELSE GraphQLList(ofFirst)

\* inferType was called on a list of two elements, the first falsy and the
\* second with a type, and has given no type
C16_FalsyFirstElement ==
  /\ lastCall.op = "inferType"
  /\ lastCall.options.value.t = "array"
  /\ Len(lastCall.options.value.v) = 2
  /\ lastCall.options.value.v[1] \in Falsy
  /\ inferType(lastCall.options.value.v[2], lastCall.options.key, lastCall.typeName) # NoType
  /\ lastCall.returned = NoType

\* the object types in a type, each with the path of field keys that leads to it
RECURSIVE NamedAt(_, _)
NamedAt(type, path) ==
  CASE type.k = "Object" ->
         {<<path, type.name>>}
           \cup UNION {NamedAt(type.fields[key], path \o <<key>>) : key \in DOMAIN type.fields}
    [] type.k = "List" -> NamedAt(type.of, path)
    [] OTHER -> {}
NamedIn(fields) == UNION {NamedAt(fields[key], <<key>>) : key \in DOMAIN fields}

\* C17: the object types that inferTypes makes for two different paths of
\* field keys under one content type have different names
C17_NestedTypeNamesUnique ==
  lastCall.op = "inferTypes" =>
    \A p \in NamedIn(lastCall.returned), q \in NamedIn(lastCall.returned) :
      p[1] # q[1] => p[2] # q[2]

----------------------------------------------------------------------------
(* The calls made on the node a of each type with references in the fields *)

\* at most this many addNode and updateNode calls are made
MaxClockReferences == 3

\* fields: none, a reference, a list of references, one with a list of ids, a
\* reference to two types in an object, and a reference at a key with '__'
WithReferences ==
  LET one == Reference(S(Post), S(<<"1">>))
      many == Reference(S(Page), Arr(<<S(<<"1">>), S(<<"2">>)>>))
      both == Reference(Arr(<<S(Post), S(Page)>>), S(<<"3">>))
  IN {[NoOptions EXCEPT !.fields = fields] :
        fields \in {U, Obj(<<"r">> :> one), Obj(<<"r">> :> Arr(<<one, many>>)),
                    Obj(<<"o">> :> Obj(<<"r">> :> both)),
                    Obj(<<"_", "_", "r">> :> one)}}

NextReferences ==
  \/ /\ clock < MaxClockReferences
     /\ \E typeName \in TypeNames, options \in WithReferences :
          addNode(typeName, [options EXCEPT !.id = A])
  \/ /\ clock < MaxClockReferences
     /\ \E typeName \in TypeNames, options \in WithReferences :
          updateNode(typeName, A, options)
  \/ \E typeName \in TypeNames : removeNode(typeName, A)

SpecReferences == Init /\ [][NextReferences]_vars

----------------------------------------------------------------------------
(* Properties of the index *)

\* the references in a value that are not at or below a key that starts with '__'
RECURSIVE DetectedIn(_)
DetectedIn(value) ==
  CASE value.t = "object" ->
         (IF IsReference(value) THEN {value} ELSE {})
           \cup UNION {IF startsWith__(key) THEN {} ELSE DetectedIn(value.v[key])
                         : key \in DOMAIN value.v}
    [] value.t = "array" -> UNION {DetectedIn(value.v[i]) : i \in 1..Len(value.v)}
    [] OTHER -> {}

\* the type names and ids of references, and those that a belongsTo lists
Referred(references) ==
  UNION {{<<String(typeName), String(id)>>
            : typeName \in Listed(r.v[K_typeName]), id \in Listed(r.v[K_id])}
           : r \in references}
ListedIn(belongsTo) ==
  UNION {{<<typeName, id>> : id \in belongsTo[typeName]} : typeName \in DOMAIN belongsTo}

\* the entries of the index and the nodes of the collections are one to one by
\* uid, and an entry has the id, the type name and the path of its node
OneToOne ==
  /\ \A e \in index : e.type = "node" /\ \E n \in Nodes : n.uid = e.uid
  /\ \A n \in Nodes : \E e \in index : e.uid = n.uid
  /\ \A e1 \in index, e2 \in index : e1.uid = e2.uid => e1 = e2
  /\ \A n1 \in Nodes, n2 \in Nodes : n1.uid = n2.uid => n1 = n2
  /\ \A e \in index, n \in Nodes :
       e.uid = n.uid => e.id = n.id /\ e.typeName = n.typeName /\ e.path = n.path

----------------------------------------------------------------------------
(* Properties of updateNode *)

\* C19: an updateNode of a stored node that throws because the mime type of
\* options.internal has no transformer leaves the node, its internal
\* included, and the index as they were
C19_FailedUpdateChangesNothing ==
  [][(/\ lastCall'.op = "updateNode"
      /\ getNode(lastCall'.typeName, lastCall'.id) # Null
      /\ Unregistered(lastCall')
      /\ lastCall'.threw)
     => (/\ collection' = collection
         /\ index' = index)]_vars

\* C20: an updateNode that succeeds leaves the id, the uid and the typeName of
\* the node and of its index entry, every other node and every other index
\* entry, and the number of nodes of each collection and of index entries
C20_UpdateKeepsIdentityAndOthers ==
  [][(lastCall'.op = "updateNode" /\ Succeeded(lastCall'))
     => LET typeName == lastCall'.typeName
            old == getNode(typeName, lastCall'.id)
            new == lastCall'.returned
        IN /\ old # Null
           /\ new.id = old.id /\ new.uid = old.uid /\ new.typeName = old.typeName
           /\ new \in collection'[typeName]
           /\ collection'[typeName] \ {new} = collection[typeName] \ {old}
           /\ \A other \in TypeNames \ {typeName} : collection'[other] = collection[other]
           /\ {e \in index' : e.uid # old.uid} = {e \in index : e.uid # old.uid}
           /\ \A e \in index' : e.uid = old.uid =>
                \E was \in index : /\ was.uid = old.uid
                                   /\ e.id = was.id /\ e.typeName = was.typeName
           /\ \A t \in TypeNames : Cardinality(collection'[t]) = Cardinality(collection[t])
           /\ Cardinality(index') = Cardinality(index)]_vars

\* an updateNode has succeeded and changed the path of its node while
\* another node of the same type is stored
C20_UpdatedAmongOthers ==
  /\ lastCall.op = "updateNode"
  /\ Succeeded(lastCall)
  /\ lastCall.emitted[1].oldNode.path # lastCall.returned.path
  /\ Cardinality(collection[lastCall.typeName]) = 2
  /\ Cardinality(index) = 2

====
